---- MODULE Spec2Model ----
(***************************************************************************)
(* Model of lib/ovs-lldp.c: the Auto Attach mapping synchronizer, the      *)
(* instance registry, the bridge VLAN-operation queue and the show-isid    *)
(* report.  Every public function is one atomic action: each of them runs  *)
(* its whole body under the one global mutex (lldp_ref and                 *)
(* lldp_process_packet take no lock but are a single update).              *)
(*                                                                         *)
(* Spec runs every function.  SpecMap, SpecRef and SpecStatus run the      *)
(* functions of one concern each (the mapping synchronizer and the queue,  *)
(* reference counting, peer status), so that each is checked exhaustively. *)
(* SpecOps is SpecMap with the history of the queued operations, SpecTimer  *)
(* the transmit timer, SpecDummy the instances of lldp_create_dummy.        *)
(* SpecThreads and SpecLive run the functions statement by statement in two *)
(* threads, with the mutex.                                                 *)
(***************************************************************************)
EXTENDS Integers, Sequences, FiniteSets, TLC

\* ------------------------------------------------------------------ bounds
\* Number of instances ever allocated by lldp_create.
MaxInst == 2
\* Cap on the number of entries of all_mappings (each register adds one).
MaxMappings == 2
\* Cap on the length of an instance's active_mapping_queue and of a port's
\* p_isid_vlan_maps list.
MaxList == 2
\* Cap on ref_cnt.
MaxRef == 3
\* Number of I-SID/VLAN map TLVs a received frame carries at most.
MaxFrameTlvs == 1
\* The clock (time_msec, in units of half a default interval) stops here.
MaxTime == 4
\* The number of functions the threads enter, where a finite set of calls is
\* followed to its end.
MaxCalls == 4

\* ----------------------------------------------------------- input domains
Names == {"p1", "p2"}
\* The mappings the bridge registers (aux, struct aa_mapping_settings): aux r1
\* stands for two I-SIDs, I-SID 100 is registered under two aux.
Settings == {[aux |-> "r1", isid |-> 100, vlan |-> 10],
             [aux |-> "r1", isid |-> 200, vlan |-> 20],
             [aux |-> "r2", isid |-> 100, vlan |-> 20]}
ISIDS == {s.isid : s \in Settings}
VLANS == {s.vlan : s \in Settings}
Auxes == {s.aux : s \in Settings}
InstIds == 1..MaxInst

\* ------------------------------------------------------- program constants
AA_STATUS_ACTIVE == 2
AA_STATUS_REJECT_GENERIC == 3
AA_STATUS_REJECT_AA_RES_NOTAVAIL == 4
AA_STATUS_REJECT_INVALID == 6
AA_STATUS_REJECT_VLAN_RES_UNAVAIL == 8
AA_STATUS_REJECT_VLAN_APP_ISSUE == 9
AA_STATUS_PENDING == 255

\* Status values a peer reports: Active and a value aa_status names not.
PeerStatus == {AA_STATUS_ACTIVE, 5}

VARIABLES
    all_lldps,      \* the registry: ids of the instances in the hmap all_lldps
    all_mappings,   \* the hmap all_mappings, in insertion order
    lldps,          \* the heap: InstIds -> struct lldp (or unused / freed)
    last,           \* the public function that ran last, with its arguments
    out,            \* what that function handed back to its caller
    unregd,         \* history: aux values unregistered and not registered since
    rc,             \* history: progress of "create, ref, ref, unref, unref, unref"
    now,            \* time_msec()
    sent,           \* history: the last lldp_put_packet not followed by lldp_configure
    th,             \* Threads -> the call a thread is in and where in it
    mutex,          \* owner of the global mutex, 0 when free
    net,            \* history: per instance and VLAN, Adds minus Removes ever queued
    hm,             \* the hmap all_lldps itself: its count n, and whether a walk of it faulted
    calls           \* history: the number of functions the threads have entered

vars == <<all_lldps, all_mappings, lldps, last, out, unregd, rc, now, sent, th, mutex,
          net, hm, calls>>

\* ----------------------------------------------------------------- helpers
\* The (uint32_t) casts of an int64_t: the I-SIDs and VLANs of the model are
\* below 2^31 and unchanged by them; the -1 of a clobbered read becomes
\* 2^32 - 1, which TLC's integers cannot hold and which no TLV of the model
\* carries, so it stays -1 here.
U32(x) == x

Min(S) == CHOOSE x \in S : \A y \in S : x <= y

RemoveAt(s, k) == [j \in 1..(Len(s) - 1) |-> IF j < k THEN s[j] ELSE s[j + 1]]

\* The orders in which an hmap may hand out n nodes.
Perms(n) == {f \in [1..n -> 1..n] : \A a, b \in 1..n : f[a] = f[b] => a = b}

\* The sequences ordering the members of the set S.
Orders(S) == {f \in [1..Cardinality(S) -> S] :
                \A a, b \in 1..Cardinality(S) : f[a] = f[b] => a = b}

\* struct aa_mapping_internal
Mapping(isid, vlan, aux, status) ==
    [isid |-> isid, vlan |-> vlan, aux |-> aux, status |-> status]

\* A slot of the heap holding no instance.
NoLldp(st) ==
    [st |-> st, name |-> "", ref_cnt |-> 0,
     mappings_by_isid |-> {}, mappings_by_aux |-> {},
     active_mapping_queue |-> <<>>, g_hardware |-> <<>>,
     tx_timer |-> 0, c_tx_interval |-> 0]

\* FreedRead were the node not freed before the read: the value it holds.
FreedRead_intact(v, dom) == {v}

\* What a read of a field of a freed aa_mapping_internal may give: the value
\* it held, any other value of the field, or a value matching nothing.
FreedRead(v, dom) == {v} \cup dom \cup {-1}

Live(i) == lldps[i].st = "live"

\* What every function but the one that ran leaves in out.
NoOut == [list |-> <<>>, n |-> 0, ds |-> {}, ret |-> 0, flag |-> FALSE,
          size |-> 0, lldp_size |-> 0]

Ran(op, i, aux, isid, vlan, rt) ==
    [op |-> op, lldp |-> i, aux |-> aux, isid |-> isid, vlan |-> vlan, rt |-> rt,
     at |-> now]

\* --------------------------------------------------------------- lookups
\* The nodes mapping_find_by_isid may return; NULL when there is none.
mapping_find_by_isid(l, isid) == {m \in l.mappings_by_isid : m.isid = isid}

\* Mutant of mapping_find_by_aux: the node's aux is not compared.
mapping_find_by_aux_any(l, aux) == l.mappings_by_aux

\* The nodes mapping_find_by_aux may return; NULL when there is none.
mapping_find_by_aux(l, aux) == {m \in l.mappings_by_aux : m.aux = aux}

aa_status_to_str(status) ==
    LET s == status % 256 IN
    CASE s = AA_STATUS_ACTIVE -> "Active"
      [] s = AA_STATUS_REJECT_GENERIC -> "Reject (Generic)"
      [] s = AA_STATUS_REJECT_AA_RES_NOTAVAIL -> "Reject (AA resources unavailable)"
      [] s = AA_STATUS_REJECT_INVALID -> "Reject (Invalid)"
      [] s = AA_STATUS_REJECT_VLAN_RES_UNAVAIL -> "Reject (VLAN resources unavailable)"
      [] s = AA_STATUS_REJECT_VLAN_APP_ISSUE -> "Reject (Application interaction issue)"
      [] s = AA_STATUS_PENDING -> "Pending"
      [] OTHER -> "Undefined"

\* ------------------------------------------------------ mapping synchronizer
\* Mutant of update_mapping_on_lldp: list_push_front for the queued node.
update_mapping_on_lldp_front(l, h, m) ==
    [l EXCEPT
       !.g_hardware[h].p_isid_vlan_maps =
           Append(@, [isid |-> m.isid, vlan |-> m.vlan]),
       !.active_mapping_queue =
           <<[port_name |-> l.g_hardware[h].h_ifname,
              vlan |-> m.vlan, oper |-> "ADD"]>> \o @]

\* Appends the TLV record to port h's exported list and queues the Add.
update_mapping_on_lldp(l, h, m) ==
    [l EXCEPT
       !.g_hardware[h].p_isid_vlan_maps =
           Append(@, [isid |-> U32(m.isid), vlan |-> m.vlan]),
       !.active_mapping_queue =
           Append(@, [port_name |-> l.g_hardware[h].h_ifname,
                      vlan |-> m.vlan, oper |-> "ADD"])]

\* LIST_FOR_EACH (hw, ...) update_mapping_on_lldp(lldp, hw, m), from port h on.
RECURSIVE UpdateEachHw(_, _, _)
UpdateEachHw(l, h, m) ==
    IF h > Len(l.g_hardware) THEN l
    ELSE UpdateEachHw(update_mapping_on_lldp(l, h, m), h + 1, m)

\* Both hmap_insert calls of a new node.
InsertMapping(l, m) ==
    [l EXCEPT !.mappings_by_isid = @ \cup {m}, !.mappings_by_aux = @ \cup {m}]

\* Mutant of RegisterOnLldp: no mapping_find_by_isid test before the insert.
RegisterOnLldp_nofind(l, aux, isid, vlan) ==
    LET m == Mapping(isid, vlan, aux, AA_STATUS_PENDING)
    IN  UpdateEachHw(InsertMapping(l, m), 1, m)

\* The body of aa_mapping_register's loop, for one instance.
RegisterOnLldp(l, aux, isid, vlan) ==
    IF mapping_find_by_isid(l, isid) # {} THEN l
    ELSE LET m == Mapping(isid, vlan, aux, AA_STATUS_PENDING)
         IN  UpdateEachHw(InsertMapping(l, m), 1, m)

\* isid_read and vlan_read are what m->isid and m->vlan give after free(m).
aa_mapping_unregister_mapping(l, h, isid_read, vlan_read) ==
    LET maps == l.g_hardware[h].p_isid_vlan_maps
        hits == {k \in 1..Len(maps) : maps[k].isid = U32(isid_read)}
    IN  IF hits = {} THEN l
        ELSE [l EXCEPT
                !.g_hardware[h].p_isid_vlan_maps = RemoveAt(maps, Min(hits)),
                !.active_mapping_queue =
                    Append(@, [port_name |-> l.g_hardware[h].h_ifname,
                               vlan |-> vlan_read, oper |-> "REMOVE"])]

RECURSIVE UnregisterEachHw(_, _, _, _)
UnregisterEachHw(l, h, isid_read, vlan_read) ==
    IF h > Len(l.g_hardware) THEN l
    ELSE UnregisterEachHw(aa_mapping_unregister_mapping(l, h, isid_read, vlan_read),
                          h + 1, isid_read, vlan_read)

\* Mutant of UnregisterOnLldp: the node stays in mappings_by_isid.
UnregisterOnLldp_keepisid(l, m, isid_read, vlan_read) ==
    UnregisterEachHw([l EXCEPT !.mappings_by_aux = @ \ {m}], 1, isid_read, vlan_read)

\* The body of aa_mapping_unregister's loop for one instance whose
\* mapping_find_by_aux gave m: both hmap_remove calls, free(m), the ports.
UnregisterOnLldp(l, m, isid_read, vlan_read) ==
    LET p == mapping_find_by_isid(l, m.isid)
        l1 == [l EXCEPT
                 !.mappings_by_isid =
                     IF p = {} THEN @ ELSE @ \ {CHOOSE x \in p : TRUE},
                 !.mappings_by_aux = @ \ {m}]
    IN  UnregisterEachHw(l1, 1, isid_read, vlan_read)

\* all_mappings after the HMAP_FOR_EACH that removes the first node with this
\* isid and vlan: any one of them, the hmap's order being the hash's.
RemoveFromAllMappings(g, isid, vlan) ==
    LET hits == {k \in 1..Len(g) : g[k].isid = isid /\ g[k].vlan = vlan}
    IN  IF isid >= 0 /\ vlan >= 0 /\ hits # {}
        THEN {RemoveAt(g, k) : k \in hits}
        ELSE {g}

\* aa_mapping_unregister's loop over all_lldps from instance i on: the pairs
\* <<heap, all_mappings>> it may end with.
RECURSIVE UnregisterFrom(_, _, _, _)
UnregisterFrom(i, aux, ls, g) ==
    IF i > MaxInst THEN {<<ls, g>>}
    ELSE IF i \notin all_lldps \/ mapping_find_by_aux(ls[i], aux) = {}
    THEN UnregisterFrom(i + 1, aux, ls, g)
    ELSE UNION {UNION {UNION {UNION {
            UnregisterFrom(i + 1, aux,
                           [ls EXCEPT ![i] = UnregisterOnLldp(ls[i], m, ri, rv)],
                           g2)
            : g2 \in RemoveFromAllMappings(g, m.isid, m.vlan)}
            : rv \in FreedRead(m.vlan, VLANS)}
            : ri \in FreedRead(m.isid, ISIDS)}
            : m \in mapping_find_by_aux(ls[i], aux)}

\* Mutant of SeedMappings: the nodes are copied into the indices and
\* update_mapping_on_lldp is not called.
RECURSIVE SeedMappings_noupdate(_, _, _, _)
SeedMappings_noupdate(l, g, ord, k) ==
    IF k > Len(g) THEN l
    ELSE LET m == g[ord[k]]
         IN  IF mapping_find_by_isid(l, m.isid) # {}
             THEN SeedMappings_noupdate(l, g, ord, k + 1)
             ELSE SeedMappings_noupdate(InsertMapping(l, m), g, ord, k + 1)

\* lldp_create's seeding loop: the nodes of g visited in the order ord, from
\* the k-th on; hw is the one port record lldp_create allocated.
RECURSIVE SeedMappings(_, _, _, _)
SeedMappings(l, g, ord, k) ==
    IF k > Len(g) THEN l
    ELSE LET m == g[ord[k]]
         IN  IF mapping_find_by_isid(l, m.isid) # {}
             THEN SeedMappings(l, g, ord, k + 1)
             ELSE SeedMappings(update_mapping_on_lldp(InsertMapping(l, m), 1, m),
                               g, ord, k + 1)

\* ------------------------------------------------------------ bridge queue
Reverse(q) == [j \in 1..Len(q) |-> q[Len(q) + 1 - j]]

\* Mutant of QueuedFrom: each queue is copied out from its tail.
RECURSIVE QueuedFrom_reversed(_, _)
QueuedFrom_reversed(ord, k) ==
    IF k > Len(ord) THEN <<>>
    ELSE Reverse(lldps[ord[k]].active_mapping_queue) \o QueuedFrom_reversed(ord, k + 1)

\* The caller's list after aa_get_vlan_queued visited the instances in the
\* order ord, from the k-th on.
RECURSIVE QueuedFrom(_, _)
QueuedFrom(ord, k) ==
    IF k > Len(ord) THEN <<>>
    ELSE lldps[ord[k]].active_mapping_queue \o QueuedFrom(ord, k + 1)

\* Mutant of DrainQueue: the LIST_FOR_EACH_SAFE loop stops before the last node.
DrainQueue_keeplast(l) ==
    [l EXCEPT !.active_mapping_queue =
        IF @ = <<>> THEN @ ELSE <<@[Len(@)]>>]

\* An instance after the LIST_FOR_EACH_SAFE loop removed and freed every node.
DrainQueue(l) == [l EXCEPT !.active_mapping_queue = <<>>]

RECURSIVE SumQueues(_)
SumQueues(S) ==
    IF S = {} THEN 0
    ELSE LET i == CHOOSE x \in S : TRUE
         IN  Len(lldps[i].active_mapping_queue) + SumQueues(S \ {i})

\* ------------------------------------------------------------------ reports
\* Mutant of SetStatus: the status is not stored.
SetStatus_none(S, isid, status) == S

\* m->status = status for the node of S with this I-SID.
SetStatus(S, isid, status) ==
    {IF m.isid = isid THEN [m EXCEPT !.status = status] ELSE m : m \in S}

\* aa_print_isid_status_port_isid: the peer's TLVs of one remote port, from
\* the k-th on.
RECURSIVE aa_print_isid_status_port_isid(_, _, _)
aa_print_isid_status_port_isid(l, maps, k) ==
    IF k > Len(maps) THEN l
    ELSE LET isid == U32(maps[k].isid)
             l1 == IF mapping_find_by_isid(l, isid) # {}
                   THEN [l EXCEPT
                           !.mappings_by_isid = SetStatus(@, isid, maps[k].status),
                           !.mappings_by_aux = SetStatus(@, isid, maps[k].status)]
                   ELSE l
         IN  aa_print_isid_status_port_isid(l1, maps, k + 1)

\* aa_print_isid_status_port: the remote ports of port record h, from the r-th.
RECURSIVE aa_print_isid_status_port(_, _, _)
aa_print_isid_status_port(l, h, r) ==
    IF r > Len(l.g_hardware[h].h_rports) THEN l
    ELSE aa_print_isid_status_port(
             aa_print_isid_status_port_isid(
                 l, l.g_hardware[h].h_rports[r].p_isid_vlan_maps, 1),
             h, r + 1)

\* The refresh pass of aa_print_isid_status over the port records.
RECURSIVE RefreshStatus(_, _)
RefreshStatus(l, h) ==
    IF h > Len(l.g_hardware) THEN l
    ELSE RefreshStatus(aa_print_isid_status_port(l, h, 1), h + 1)

\* The table rows aa_print_isid_status writes for instance i.
IsidRows(i, l) ==
    {[lldp |-> i, name |-> l.name, isid |-> m.isid, vlan |-> m.vlan,
      source |-> "Switch", status |-> aa_status_to_str(m.status)]
     : m \in l.mappings_by_isid}

\* ------------------------------------------------------------------ monitors
\* rc follows the instance created last through ref, ref, unref, unref,
\* unref; any other ref or unref of it ends the run ("off").
RcAfter(r, l) ==
    CASE l.op = "create" /\ l.lldp # 0 -> [lldp |-> l.lldp, stage |-> "created"]
      [] l.op = "ref" /\ l.lldp = r.lldp ->
            [r EXCEPT !.stage = CASE r.stage = "created" -> "ref1"
                                  [] r.stage = "ref1" -> "ref2"
                                  [] OTHER -> "off"]
      [] l.op = "unref" /\ l.lldp = r.lldp ->
            [r EXCEPT !.stage = CASE r.stage = "ref2" -> "unref1"
                                  [] r.stage = "unref1" -> "unref2"
                                  [] r.stage = "unref2" -> "unref3"
                                  [] OTHER -> "off"]
      [] OTHER -> r

\* unregd: the aux values unregistered and not registered again since.
UnregdAfter(u, l) ==
    CASE l.op = "unregister" -> u \cup {l.aux}
      [] l.op = "register" -> u \ {l.aux}
      [] OTHER -> u

\* Neither the I-SID nor the aux is known anywhere: no entry of all_mappings
\* and no instance has it.
Fresh(aux, isid) ==
    /\ \A k \in 1..Len(all_mappings) :
          all_mappings[k].isid # isid /\ all_mappings[k].aux # aux
    /\ \A i \in all_lldps : \A m \in lldps[i].mappings_by_isid \cup lldps[i].mappings_by_aux :
          m.isid # isid /\ m.aux # aux

\* sent: the instance, time and interval of the last lldp_put_packet, until
\* lldp_configure runs on the instance.
NoSent == [lldp |-> 0, at |-> 0, interval |-> 0]

SentAfter(x, l, ls) ==
    CASE l.op = "put_packet" ->
            [lldp |-> l.lldp, at |-> l.at, interval |-> ls[l.lldp].c_tx_interval]
      [] l.op = "configure" /\ l.lldp = x.lldp -> NoSent
      [] OTHER -> x

\* net: nothing queued yet.  -1 is the VLAN of a Remove filled from a freed
\* node that matches no VLAN.
NoNet == [i \in InstIds |-> [v \in VLANS \cup {-1} |-> 0]]

\* The operations at the tail of q2 that q does not have: those queued since,
\* none when q was drained or freed in between.
QueuedSince(q, q2) ==
    IF Len(q) <= Len(q2) /\ \A k \in 1..Len(q) : q[k] = q2[k]
    THEN SubSeq(q2, Len(q) + 1, Len(q2))
    ELSE <<>>

\* The count stops at MaxList + 1 either side of zero.
Clamp(x) == IF x > MaxList + 1 THEN MaxList + 1
            ELSE IF x < 0 - (MaxList + 1) THEN 0 - (MaxList + 1) ELSE x

\* net[i][v] differs from the number of nodes with VLAN v instance i holds.
NetOff(x, ls) ==
    \E i \in InstIds : \E v \in VLANS \cup {-1} :
       /\ ls[i].st = "live"
       /\ x[i][v] # Cardinality({m \in ls[i].mappings_by_isid : m.vlan = v})

\* net follows the queues of the live instances up to the first state in
\* which it differs from the nodes held, and stays as it is from there on.
NetAfter(x, ls, ls2) ==
    IF NetOff(x, ls) THEN x
    ELSE [i \in InstIds |-> [v \in VLANS \cup {-1} |->
            LET new == QueuedSince(ls[i].active_mapping_queue, ls2[i].active_mapping_queue)
                adds == Cardinality({k \in 1..Len(new) :
                                        new[k].oper = "ADD" /\ new[k].vlan = v})
                rems == Cardinality({k \in 1..Len(new) :
                                        new[k].oper = "REMOVE" /\ new[k].vlan = v})
            IN  IF ls2[i].st = "live" THEN Clamp(x[i][v] + adds - rems) ELSE 0]]

\* lib/hmap.h.  hmap_remove(all_lldps, node) walks the node's bucket until it
\* meets the node, unlinks it and decrements n.  For a node that was never
\* inserted the walk runs off the end of the bucket: the process faults, or
\* whatever the walk stops at is unlinked and n is decremented.  n is a
\* size_t: a value below zero stands for its wrap-around.
hmap_remove(h, reg, i) ==
    IF i \in reg THEN {[h EXCEPT !.n = @ - 1]}
    ELSE {[h EXCEPT !.segv = TRUE], [h EXCEPT !.n = @ - 1]}

\* The hmap after lldp_unref(i): untouched unless the instance was torn down.
HmAfterUnref(h, reg, ls2, i) ==
    IF ls2[i].st = "freed" THEN hmap_remove(h, reg, i) ELSE {h}

\* hmap->n follows the insertions and removals of members.
HmAfter(h, reg) == [h EXCEPT !.n = Cardinality(reg)]

\* ------------------------------------------------------------------ threads
Threads == {1, 2}

\* A thread outside every function of the module.
Idle ==
    [op |-> "idle", pc |-> 0, lldp |-> 0, name |-> "", enable |-> FALSE,
     aux |-> "", isid |-> 0, vlan |-> 0, ret |-> FALSE]

\* -------------------------------------------------------------------- Init
Init ==
    /\ now = 0
    /\ all_lldps = {}
    /\ all_mappings = <<>>
    /\ lldps = [i \in InstIds |-> NoLldp("unused")]
    /\ last = Ran("init", 0, "", 0, 0, FALSE)
    /\ out = NoOut
    /\ unregd = {}
    /\ rc = [lldp |-> 0, stage |-> "off"]
    /\ sent = NoSent
    /\ th = [t \in Threads |-> Idle]
    /\ mutex = 0
    /\ net = NoNet
    /\ hm = [n |-> 0, segv |-> FALSE]
    /\ calls = 0

\* ----------------------------------------------------------------- actions
\* The instance lldp_create builds before it takes the mutex.
NewLldp(name) ==
    [st |-> "live", name |-> name, ref_cnt |-> 1,
     mappings_by_isid |-> {}, mappings_by_aux |-> {},
     active_mapping_queue |-> <<>>,
     g_hardware |-> <<[h_ifname |-> name, p_isid_vlan_maps |-> <<>>,
                       h_rports |-> <<>>]>>,
     tx_timer |-> 0, c_tx_interval |-> 0]

lldp_create(name, enable) ==
    IF ~enable
    THEN /\ last' = Ran("create", 0, "", 0, 0, FALSE)
         /\ out' = NoOut
         /\ UNCHANGED <<all_lldps, all_mappings, lldps>>
    ELSE /\ \E i \in InstIds : lldps[i].st = "unused"
         /\ LET i == Min({j \in InstIds : lldps[j].st = "unused"})
            IN  \E ord \in Perms(Len(all_mappings)) :
                  /\ lldps' = [lldps EXCEPT
                                 ![i] = SeedMappings(NewLldp(name), all_mappings, ord, 1)]
                  /\ all_lldps' = all_lldps \cup {i}
                  /\ last' = Ran("create", i, "", 0, 0, FALSE)
         /\ out' = NoOut
         /\ UNCHANGED all_mappings

\* The instance lldp_create_dummy builds; it is not inserted into all_lldps.
NewDummy ==
    [NewLldp("dummy-lldp") EXCEPT !.g_hardware[1].h_ifname = "dummy-hw"]

lldp_create_dummy ==
    /\ \E i \in InstIds : lldps[i].st = "unused"
    /\ LET i == Min({j \in InstIds : lldps[j].st = "unused"})
       IN  /\ lldps' = [lldps EXCEPT ![i] = NewDummy]
           /\ last' = Ran("create_dummy", i, "", 0, 0, FALSE)
    /\ out' = NoOut
    /\ UNCHANGED <<all_lldps, all_mappings>>

lldp_ref(i) ==
    /\ Live(i)
    /\ lldps[i].ref_cnt < MaxRef
    /\ lldps' = [lldps EXCEPT ![i].ref_cnt = @ + 1]
    /\ last' = Ran("ref", i, "", 0, 0, FALSE)
    /\ out' = NoOut
    /\ UNCHANGED <<all_lldps, all_mappings>>

\* Mutant of UnrefKeeps: every lldp_unref tears the instance down.
UnrefKeeps_never(old_cnt) == FALSE

\* Mutant of UnrefKeeps: the teardown starts one reference early.
UnrefKeeps_early(old_cnt) == old_cnt > 2

\* Whether lldp_unref, having read old_cnt from ovs_refcount_unref_relaxed,
\* returns without tearing the instance down.
UnrefKeeps(old_cnt) == old_cnt # 1

lldp_unref(i) ==
    /\ Live(i)
    /\ IF UnrefKeeps(lldps[i].ref_cnt)
       THEN /\ lldps' = [lldps EXCEPT ![i].ref_cnt = @ - 1]
            /\ UNCHANGED all_lldps
       ELSE /\ all_lldps' = all_lldps \ {i}
            /\ lldps' = [lldps EXCEPT ![i] = NoLldp("freed")]
    /\ last' = Ran("unref", i, "", 0, 0, FALSE)
    /\ out' = NoOut
    /\ UNCHANGED all_mappings

\* No list of an instance in the registry is at its cap.
RoomInLists ==
    \A i \in all_lldps :
        /\ Len(lldps[i].active_mapping_queue) < MaxList
        /\ \A h \in 1..Len(lldps[i].g_hardware) :
              Len(lldps[i].g_hardware[h].p_isid_vlan_maps) < MaxList

aa_mapping_register(aux, isid, vlan) ==
    /\ Len(all_mappings) < MaxMappings
    /\ RoomInLists
    /\ all_mappings' = Append(all_mappings, Mapping(isid, vlan, aux, AA_STATUS_PENDING))
    /\ lldps' = [i \in InstIds |->
                   IF i \in all_lldps THEN RegisterOnLldp(lldps[i], aux, isid, vlan)
                   ELSE lldps[i]]
    /\ last' = Ran("register", 0, aux, isid, vlan, Fresh(aux, isid))
    /\ out' = NoOut
    /\ UNCHANGED all_lldps

aa_mapping_unregister(aux) ==
    /\ RoomInLists
    /\ \E res \in UnregisterFrom(1, aux, lldps, all_mappings) :
          /\ lldps' = res[1]
          /\ all_mappings' = res[2]
    /\ last' = IF last.op = "register" /\ last.rt /\ last.aux = aux
               THEN Ran("unregister", 0, aux, last.isid, last.vlan, TRUE)
               ELSE Ran("unregister", 0, aux, 0, 0, FALSE)
    /\ out' = NoOut
    /\ UNCHANGED all_lldps

aa_get_vlan_queued ==
    /\ \E ord \in Orders(all_lldps) :
          out' = [NoOut EXCEPT !.list = QueuedFrom(ord, 1)]
    /\ lldps' = [i \in InstIds |->
                   IF i \in all_lldps
                   THEN DrainQueue(lldps[i])
                   ELSE lldps[i]]
    /\ last' = Ran("queued", 0, "", 0, 0, FALSE)
    /\ UNCHANGED <<all_lldps, all_mappings>>

aa_get_vlan_queue_size ==
    /\ out' = [NoOut EXCEPT !.n = U32(SumQueues(all_lldps))]
    /\ last' = Ran("queue_size", 0, "", 0, 0, FALSE)
    /\ UNCHANGED <<all_lldps, all_mappings, lldps>>

aa_unixctl_show_isid ==
    /\ lldps' = [i \in InstIds |->
                   IF i \in all_lldps THEN RefreshStatus(lldps[i], 1) ELSE lldps[i]]
    /\ out' = [NoOut EXCEPT !.ds = UNION {IsidRows(i, lldps'[i]) : i \in all_lldps}]
    /\ last' = Ran("show_isid", 0, "", 0, 0, FALSE)
    /\ UNCHANGED <<all_lldps, all_mappings>>

\* The frames a peer sends: up to MaxFrameTlvs I-SID/VLAN map TLVs.
PeerTlv == [isid : ISIDS, vlan : {0}, status : PeerStatus]
Frames == UNION {[1..n -> PeerTlv] : n \in 0..MaxFrameTlvs}

\* The protocol engine's decoding: the frame's TLVs become the TLV list of the
\* remote port of the port record the frame came in on.
lldpd_recv(l, h, frame) ==
    [l EXCEPT !.g_hardware[h].h_rports = <<[p_isid_vlan_maps |-> frame]>>]

lldp_process_packet(i, frame) ==
    /\ Live(i)
    /\ lldps' = [lldps EXCEPT ![i] = lldpd_recv(lldps[i], 1, frame)]
    /\ last' = Ran("process", i, "", 0, 0, FALSE)
    /\ out' = NoOut
    /\ UNCHANGED <<all_lldps, all_mappings>>

\* ------------------------------------------------------------ transmit timer
\* lib/timer.h.  LLONG_MIN stands below every time the clock shows.
LLONG_MIN == 0 - 1
timer_set_expired(t) == LLONG_MIN
timer_set_duration(t, duration) == now + duration
timer_expired(t) == now >= t

\* The default transmit interval, in units of the clock.
LLDP_DEFAULT_TRANSMIT_INTERVAL_MS == 2

\* packets.h: the length of the header eth_compose writes.
ETH_HEADER_LEN == 14
MINIMUM_ETH_PACKET_SIZE == 68

\* The lengths of the payload lldpd_send may encode.
Payloads == {MINIMUM_ETH_PACKET_SIZE - ETH_HEADER_LEN - 1,
             MINIMUM_ETH_PACKET_SIZE - ETH_HEADER_LEN}

\* tx_timer after lldp_configure's two calls on it.
ConfigureTimer(l) ==
    timer_set_duration(timer_set_expired(l.tx_timer), LLDP_DEFAULT_TRANSMIT_INTERVAL_MS)

lldp_configure(i) ==
    /\ Live(i)
    /\ lldps' = [lldps EXCEPT ![i].tx_timer = ConfigureTimer(lldps[i]),
                              ![i].c_tx_interval = LLDP_DEFAULT_TRANSMIT_INTERVAL_MS]
    /\ last' = Ran("configure", i, "", 0, 0, FALSE)
    /\ out' = [NoOut EXCEPT !.flag = TRUE]
    /\ UNCHANGED <<all_lldps, all_mappings>>

\* Mutant of PutPacketTimer: the timer is armed with the default interval.
PutPacketTimer_default(l) ==
    timer_set_duration(l.tx_timer, LLDP_DEFAULT_TRANSMIT_INTERVAL_MS)

\* tx_timer after lldp_put_packet.
PutPacketTimer(l) == timer_set_duration(l.tx_timer, l.c_tx_interval)

\* The length of the packet after eth_compose and lldpd_send, which appends
\* payload bytes and returns their number.
PacketSize(payload) == ETH_HEADER_LEN + payload

\* The local lldp_size when lldp_put_packet returns.
LldpSize(payload) ==
    IF payload + ETH_HEADER_LEN < MINIMUM_ETH_PACKET_SIZE
    THEN MINIMUM_ETH_PACKET_SIZE ELSE payload

lldp_put_packet(i, payload) ==
    /\ Live(i)
    /\ lldps' = [lldps EXCEPT ![i].tx_timer = PutPacketTimer(lldps[i])]
    /\ last' = Ran("put_packet", i, "", 0, 0, FALSE)
    /\ out' = [NoOut EXCEPT !.size = PacketSize(payload), !.lldp_size = LldpSize(payload)]
    /\ UNCHANGED <<all_lldps, all_mappings>>

\* What lldp_should_send_packet returns now.
ShouldSend(i) == timer_expired(lldps[i].tx_timer)

lldp_should_send_packet(i) ==
    /\ Live(i)
    /\ last' = Ran("should_send", i, "", 0, 0, FALSE)
    /\ out' = [NoOut EXCEPT !.flag = ShouldSend(i)]
    /\ UNCHANGED <<all_lldps, all_mappings, lldps>>

\* What lldp_wake_time returns now for an instance.
WakeTime(i) == lldps[i].tx_timer

lldp_wake_time(i) ==
    /\ Live(i)
    /\ last' = Ran("wake_time", i, "", 0, 0, FALSE)
    /\ out' = [NoOut EXCEPT !.ret = WakeTime(i)]
    /\ UNCHANGED <<all_lldps, all_mappings, lldps>>

\* The clock advances; no function runs.
Tick ==
    /\ now < MaxTime
    /\ now' = now + 1
    /\ UNCHANGED <<all_lldps, all_mappings, lldps, last, out>>

\* ------------------------------------------------------- functions in steps
\* The statements of a function between which another thread may run: the
\* mutex calls and the accesses in between, in program order.
create_steps_seed_unlocked == <<"cfg", "alloc", "seed", "lock", "insert", "unlock", "publish">>

create_steps == <<"cfg", "alloc", "lock", "seed", "insert", "unlock", "publish">>

register_steps == <<"lock", "table", "fanout", "unlock">>

unref_steps_unlock_first == <<"lock", "unref_cnt", "unlock", "remove", "free">>

\* lldp_unref when the count it read was 1.
unref_steps == <<"lock", "unref_cnt", "remove", "unlock", "free">>

unref_keep_steps_no_unlock == <<"lock", "unref_cnt">>

\* lldp_unref when the count it read was not 1.
unref_keep_steps == <<"lock", "unref_cnt", "unlock">>

ref_steps == <<"ref_cnt">>

put_packet_steps == <<"lock", "send", "put_timer", "unlock">>

configure_steps == <<"lock", "cfg_timer", "unlock">>

should_send_steps == <<"lock", "read_timer", "unlock">>

wake_time_steps == <<"lock", "read_wake", "unlock">>

\* lldp_wait: lldp_wake_time, then poll_timer_wait_until.
wait_steps == <<"lock", "read_wake", "unlock", "poll_wait">>

unregister_steps == <<"lock", "unreg", "unlock">>

queued_steps == <<"lock", "drain", "unlock">>

queue_size_steps == <<"lock", "sum", "unlock">>

aa_configure_steps == <<"lock", "aa_cfg", "unlock">>

unixctl_status_steps == <<"lock", "report", "reply", "unlock">>

unixctl_show_isid_steps == <<"lock", "refresh", "reply", "unlock">>

unixctl_statistics_steps == <<"lock", "report", "unlock", "reply">>

Steps(op) ==
    CASE op = "create" -> create_steps
      [] op = "register" -> register_steps
      [] op = "unref" -> unref_steps
      [] op = "unref_keep" -> unref_keep_steps
      [] op = "ref" -> ref_steps
      [] op = "put_packet" -> put_packet_steps
      [] op = "configure" -> configure_steps
      [] op = "should_send" -> should_send_steps
      [] op = "wake_time" -> wake_time_steps
      [] op = "wait" -> wait_steps
      [] op = "unregister" -> unregister_steps
      [] op = "queued" -> queued_steps
      [] op = "queue_size" -> queue_size_steps
      [] op = "aa_configure" -> aa_configure_steps
      [] op = "status" -> unixctl_status_steps
      [] op = "show_isid" -> unixctl_show_isid_steps
      [] op = "statistics" -> unixctl_statistics_steps
      [] OTHER -> <<>>

\* The statement thread t executes next.
Label(t) == Steps(th[t].op)[th[t].pc]

\* The statements that read or write the registry, all_mappings, or the
\* indices, queue or tx_timer of an instance.
Shared(lab) ==
    lab \in {"seed", "insert", "table", "fanout", "remove",
             "put_timer", "cfg_timer", "read_timer", "read_wake",
             "unreg", "drain", "sum", "aa_cfg", "report", "refresh"}

Running(t) == th[t].pc > 0

\* The thread has returned from the function.
Returned(c) == Idle

\* The call record after its statement at pc: the next statement, or the
\* return after the last one.
Advance(c) ==
    IF c.pc + 1 > Len(Steps(c.op)) THEN Returned(c) ELSE [c EXCEPT !.pc = c.pc + 1]

\* Thread t enters a function.
Enter(t, c) == th' = [th EXCEPT ![t] = [c EXCEPT !.pc = 1]]

\* The callers' discipline: a function is called on an instance its creator
\* got back, and lldp_unref is not called on an instance another thread is
\* in a call on (that thread holds no reference of its own).
\* The other threads inside lldp_unref(i) that have not decremented yet.
PendingUnrefs(t, i) ==
    {u \in Threads \ {t} : /\ Running(u) /\ th[u].lldp = i
                            /\ th[u].op \in {"unref", "unref_keep"} /\ th[u].pc <= 2}

\* The other threads inside another function called on instance i.
Borrowers(t, i) ==
    {u \in Threads \ {t} : /\ Running(u) /\ th[u].lldp = i
                            /\ th[u].op \notin {"unref", "unref_keep"}}

\* The callers' discipline: a function is called on an instance its creator
\* got back and of which a reference remains once the lldp_unref calls under
\* way have taken theirs.
Usable(t, i) ==
    /\ lldps[i].st = "live"
    /\ Cardinality(PendingUnrefs(t, i)) < lldps[i].ref_cnt

\* lldp_unref gives up a reference of the caller's own: one that neither an
\* lldp_unref under way nor a thread inside another call on the instance
\* relies on.
Releasable(t, i) ==
    /\ lldps[i].st = "live"
    /\ Cardinality(PendingUnrefs(t, i)) + (IF Borrowers(t, i) = {} THEN 0 ELSE 1)
          < lldps[i].ref_cnt

StartCreate(t) ==
    /\ ~Running(t)
    /\ Cardinality({i \in InstIds : lldps[i].st = "unused"})
          > Cardinality({u \in Threads : Running(u) /\ th[u].op = "create" /\ th[u].pc <= 2})
    /\ \E name \in Names, enable \in BOOLEAN :
          Enter(t, [Idle EXCEPT !.op = "create", !.name = name, !.enable = enable])
    /\ UNCHANGED <<all_lldps, all_mappings, lldps, mutex>>

StartRegister(t) ==
    /\ ~Running(t)
    /\ Len(all_mappings)
          + Cardinality({u \in Threads : Running(u) /\ th[u].op = "register" /\ th[u].pc <= 2})
          < MaxMappings
    /\ \E x \in Settings :
          Enter(t, [Idle EXCEPT !.op = "register", !.aux = x.aux, !.isid = x.isid, !.vlan = x.vlan])
    /\ UNCHANGED <<all_lldps, all_mappings, lldps, mutex>>

StartUnref(t) ==
    /\ ~Running(t)
    /\ \E i \in InstIds :
          /\ Releasable(t, i)
          /\ Enter(t, [Idle EXCEPT !.op = "unref", !.lldp = i])
    /\ UNCHANGED <<all_lldps, all_mappings, lldps, mutex>>

StartRef(t) ==
    /\ ~Running(t)
    /\ \E i \in InstIds :
          /\ Usable(t, i)
          /\ lldps[i].ref_cnt
                + Cardinality({u \in Threads : Running(u) /\ th[u].op = "ref" /\ th[u].lldp = i})
                < MaxRef
          /\ Enter(t, [Idle EXCEPT !.op = "ref", !.lldp = i])
    /\ UNCHANGED <<all_lldps, all_mappings, lldps, mutex>>

StartTimerCall(t) ==
    /\ ~Running(t)
    /\ \E i \in InstIds, op \in {"put_packet", "configure", "should_send"} :
          /\ Usable(t, i)
          /\ Enter(t, [Idle EXCEPT !.op = op, !.lldp = i])
    /\ UNCHANGED <<all_lldps, all_mappings, lldps, mutex>>

StartWakeCall(t) ==
    /\ ~Running(t)
    /\ \E i \in InstIds, op \in {"wake_time", "wait"} :
          /\ Usable(t, i)
          /\ Enter(t, [Idle EXCEPT !.op = op, !.lldp = i])
    /\ UNCHANGED <<all_lldps, all_mappings, lldps, mutex>>

StartUnregister(t) ==
    /\ ~Running(t)
    /\ \E aux \in Auxes : Enter(t, [Idle EXCEPT !.op = "unregister", !.aux = aux])
    /\ UNCHANGED <<all_lldps, all_mappings, lldps, mutex>>

\* The functions that take no argument the model follows.
StartRegistryCall(t) ==
    /\ ~Running(t)
    /\ \E op \in {"queued", "queue_size", "aa_configure", "status", "show_isid", "statistics"} :
          Enter(t, [Idle EXCEPT !.op = op])
    /\ UNCHANGED <<all_lldps, all_mappings, lldps, mutex>>

\* The mutex is free or names the thread that holds it.
ovs_mutex_lock(t) == mutex = 0 /\ mutex' = t

ovs_mutex_unlock(t) == mutex' = IF mutex = t THEN 0 ELSE mutex

\* Thread t executes its next statement.
ThStep(t) ==
    /\ Running(t)
    /\ LET c == th[t]
           i == c.lldp
           lab == Label(t)
       IN  CASE lab = "cfg" ->
                  /\ th' = [th EXCEPT ![t] = IF c.enable THEN Advance(c) ELSE Returned(c)]
                  /\ UNCHANGED <<all_lldps, all_mappings, lldps, mutex>>
             [] lab = "alloc" ->
                  LET j == Min({k \in InstIds : lldps[k].st = "unused"})
                  IN  /\ lldps' = [lldps EXCEPT ![j] = [NewLldp(c.name) EXCEPT !.st = "new"]]
                      /\ th' = [th EXCEPT ![t] = Advance([c EXCEPT !.lldp = j])]
                      /\ UNCHANGED <<all_lldps, all_mappings, mutex>>
             [] lab = "lock" ->
                  /\ ovs_mutex_lock(t)
                  /\ th' = [th EXCEPT ![t] = Advance(c)]
                  /\ UNCHANGED <<all_lldps, all_mappings, lldps>>
             [] lab = "unlock" ->
                  /\ ovs_mutex_unlock(t)
                  /\ th' = [th EXCEPT ![t] = Advance(c)]
                  /\ UNCHANGED <<all_lldps, all_mappings, lldps>>
             [] lab = "seed" ->
                  /\ \E ord \in Perms(Len(all_mappings)) :
                        lldps' = [lldps EXCEPT
                                    ![i] = SeedMappings(lldps[i], all_mappings, ord, 1)]
                  /\ th' = [th EXCEPT ![t] = Advance(c)]
                  /\ UNCHANGED <<all_lldps, all_mappings, mutex>>
             [] lab = "insert" ->
                  /\ all_lldps' = all_lldps \cup {i}
                  /\ th' = [th EXCEPT ![t] = Advance(c)]
                  /\ UNCHANGED <<all_mappings, lldps, mutex>>
             [] lab = "publish" ->
                  /\ lldps' = [lldps EXCEPT ![i].st = "live"]
                  /\ th' = [th EXCEPT ![t] = Advance(c)]
                  /\ UNCHANGED <<all_lldps, all_mappings, mutex>>
             [] lab = "table" ->
                  /\ all_mappings' = Append(all_mappings,
                                            Mapping(c.isid, c.vlan, c.aux, AA_STATUS_PENDING))
                  /\ th' = [th EXCEPT ![t] = Advance(c)]
                  /\ UNCHANGED <<all_lldps, lldps, mutex>>
             [] lab = "fanout" ->
                  /\ lldps' = [k \in InstIds |->
                                 IF k \in all_lldps
                                 THEN RegisterOnLldp(lldps[k], c.aux, c.isid, c.vlan)
                                 ELSE lldps[k]]
                  /\ th' = [th EXCEPT ![t] = Advance(c)]
                  /\ UNCHANGED <<all_lldps, all_mappings, mutex>>
             [] lab = "unref_cnt" ->
                  /\ lldps' = [lldps EXCEPT ![i].ref_cnt = @ - 1]
                  /\ th' = [th EXCEPT ![t] =
                               Advance([c EXCEPT !.op = IF UnrefKeeps(lldps[i].ref_cnt)
                                                        THEN "unref_keep" ELSE "unref"])]
                  /\ UNCHANGED <<all_lldps, all_mappings, mutex>>
             [] lab = "remove" ->
                  /\ all_lldps' = all_lldps \ {i}
                  /\ th' = [th EXCEPT ![t] = Advance(c)]
                  /\ UNCHANGED <<all_mappings, lldps, mutex>>
             [] lab = "free" ->
                  /\ lldps' = [lldps EXCEPT ![i] = NoLldp("freed")]
                  /\ th' = [th EXCEPT ![t] = Advance(c)]
                  /\ UNCHANGED <<all_lldps, all_mappings, mutex>>
             [] lab = "ref_cnt" ->
                  /\ lldps' = [lldps EXCEPT ![i].ref_cnt = @ + 1]
                  /\ th' = [th EXCEPT ![t] = Advance(c)]
                  /\ UNCHANGED <<all_lldps, all_mappings, mutex>>
             [] lab = "send" ->
                  /\ th' = [th EXCEPT ![t] = Advance(c)]
                  /\ UNCHANGED <<all_lldps, all_mappings, lldps, mutex>>
             [] lab = "put_timer" ->
                  /\ lldps' = [lldps EXCEPT ![i].tx_timer = PutPacketTimer(lldps[i])]
                  /\ th' = [th EXCEPT ![t] = Advance(c)]
                  /\ UNCHANGED <<all_lldps, all_mappings, mutex>>
             [] lab = "cfg_timer" ->
                  /\ lldps' = [lldps EXCEPT
                                 ![i].tx_timer = ConfigureTimer(lldps[i]),
                                 ![i].c_tx_interval = LLDP_DEFAULT_TRANSMIT_INTERVAL_MS]
                  /\ th' = [th EXCEPT ![t] = Advance(c)]
                  /\ UNCHANGED <<all_lldps, all_mappings, mutex>>
             [] lab = "read_timer" ->
                  /\ th' = [th EXCEPT ![t] = Advance([c EXCEPT !.ret = ShouldSend(i)])]
                  /\ UNCHANGED <<all_lldps, all_mappings, lldps, mutex>>
             [] lab = "unreg" ->
                  /\ \E res \in UnregisterFrom(1, c.aux, lldps, all_mappings) :
                        /\ lldps' = res[1]
                        /\ all_mappings' = res[2]
                  /\ th' = [th EXCEPT ![t] = Advance(c)]
                  /\ UNCHANGED <<all_lldps, mutex>>
             [] lab = "drain" ->
                  /\ lldps' = [k \in InstIds |->
                                 IF k \in all_lldps THEN DrainQueue(lldps[k]) ELSE lldps[k]]
                  /\ th' = [th EXCEPT ![t] = Advance(c)]
                  /\ UNCHANGED <<all_lldps, all_mappings, mutex>>
             [] lab = "refresh" ->
                  /\ lldps' = [k \in InstIds |->
                                 IF k \in all_lldps THEN RefreshStatus(lldps[k], 1) ELSE lldps[k]]
                  /\ th' = [th EXCEPT ![t] = Advance(c)]
                  /\ UNCHANGED <<all_lldps, all_mappings, mutex>>
             [] lab \in {"read_wake", "poll_wait", "sum", "aa_cfg", "report", "reply"} ->
                  /\ th' = [th EXCEPT ![t] = Advance(c)]
                  /\ UNCHANGED <<all_lldps, all_mappings, lldps, mutex>>

\* The functions, each with its arguments.
Create == \E name \in Names, enable \in BOOLEAN : lldp_create(name, enable)
Ref == \E i \in InstIds : lldp_ref(i)
Unref == \E i \in InstIds : lldp_unref(i)
Register == \E s \in Settings : aa_mapping_register(s.aux, s.isid, s.vlan)
Unregister == \E aux \in Auxes : aa_mapping_unregister(aux)
Queued == aa_get_vlan_queued
QueueSize == aa_get_vlan_queue_size
ShowIsid == aa_unixctl_show_isid
Process == \E i \in InstIds, frame \in Frames : lldp_process_packet(i, frame)
Configure == \E i \in InstIds : lldp_configure(i)
PutPacket == \E i \in InstIds, payload \in Payloads : lldp_put_packet(i, payload)
ShouldSendPacket == \E i \in InstIds : lldp_should_send_packet(i)
WakeTimeOf == \E i \in InstIds : lldp_wake_time(i)

\* Every function.
Next ==
    \/ Create /\ UNCHANGED <<unregd, rc>> /\ UNCHANGED <<now, sent, th, mutex, net, calls>> /\ hm' = HmAfter(hm, all_lldps')
    \/ Ref /\ UNCHANGED <<unregd, rc>> /\ UNCHANGED <<now, sent, th, mutex, net, calls>> /\ hm' = HmAfter(hm, all_lldps')
    \/ Unref /\ UNCHANGED <<unregd, rc>> /\ UNCHANGED <<now, sent, th, mutex, net, calls>> /\ hm' = HmAfter(hm, all_lldps')
    \/ Register /\ UNCHANGED <<unregd, rc>> /\ UNCHANGED <<now, sent, th, mutex, net, calls>> /\ hm' = HmAfter(hm, all_lldps')
    \/ Unregister /\ UNCHANGED <<unregd, rc>> /\ UNCHANGED <<now, sent, th, mutex, net, calls>> /\ hm' = HmAfter(hm, all_lldps')
    \/ Queued /\ UNCHANGED <<unregd, rc>> /\ UNCHANGED <<now, sent, th, mutex, net, calls>> /\ hm' = HmAfter(hm, all_lldps')
    \/ QueueSize /\ UNCHANGED <<unregd, rc>> /\ UNCHANGED <<now, sent, th, mutex, net, calls>> /\ hm' = HmAfter(hm, all_lldps')
    \/ ShowIsid /\ UNCHANGED <<unregd, rc>> /\ UNCHANGED <<now, sent, th, mutex, net, calls>> /\ hm' = HmAfter(hm, all_lldps')
    \/ Process /\ UNCHANGED <<unregd, rc>> /\ UNCHANGED <<now, sent, th, mutex, net, calls>> /\ hm' = HmAfter(hm, all_lldps')

Spec == Init /\ [][Next]_vars

\* The mapping synchronizer, the queue and the registry; unregd follows the
\* registrations.  No lldp_ref: every instance has the one reference of its
\* creator, and lldp_unref tears it down.
NextMap ==
    \/ Create /\ unregd' = UnregdAfter(unregd, last') /\ UNCHANGED rc /\ UNCHANGED <<now, sent, th, mutex, net, calls>> /\ hm' = HmAfter(hm, all_lldps')
    \/ Unref /\ unregd' = UnregdAfter(unregd, last') /\ UNCHANGED rc /\ UNCHANGED <<now, sent, th, mutex, net, calls>> /\ hm' = HmAfter(hm, all_lldps')
    \/ Register /\ unregd' = UnregdAfter(unregd, last') /\ UNCHANGED rc /\ UNCHANGED <<now, sent, th, mutex, net, calls>> /\ hm' = HmAfter(hm, all_lldps')
    \/ Unregister /\ unregd' = UnregdAfter(unregd, last') /\ UNCHANGED rc /\ UNCHANGED <<now, sent, th, mutex, net, calls>> /\ hm' = HmAfter(hm, all_lldps')
    \/ Queued /\ unregd' = UnregdAfter(unregd, last') /\ UNCHANGED rc /\ UNCHANGED <<now, sent, th, mutex, net, calls>> /\ hm' = HmAfter(hm, all_lldps')
    \/ QueueSize /\ unregd' = UnregdAfter(unregd, last') /\ UNCHANGED rc /\ UNCHANGED <<now, sent, th, mutex, net, calls>> /\ hm' = HmAfter(hm, all_lldps')

SpecMap == Init /\ [][NextMap]_vars

\* The functions of SpecMap, with net following what they queue.
NextOps ==
    \/ Create /\ net' = NetAfter(net, lldps, lldps') /\ UNCHANGED <<unregd, rc, now, sent, th, mutex, calls>> /\ hm' = HmAfter(hm, all_lldps')
    \/ Unref /\ net' = NetAfter(net, lldps, lldps') /\ UNCHANGED <<unregd, rc, now, sent, th, mutex, calls>> /\ hm' = HmAfter(hm, all_lldps')
    \/ Register /\ net' = NetAfter(net, lldps, lldps') /\ UNCHANGED <<unregd, rc, now, sent, th, mutex, calls>> /\ hm' = HmAfter(hm, all_lldps')
    \/ Unregister /\ net' = NetAfter(net, lldps, lldps') /\ UNCHANGED <<unregd, rc, now, sent, th, mutex, calls>> /\ hm' = HmAfter(hm, all_lldps')
    \/ Queued /\ net' = NetAfter(net, lldps, lldps') /\ UNCHANGED <<unregd, rc, now, sent, th, mutex, calls>> /\ hm' = HmAfter(hm, all_lldps')
    \/ QueueSize /\ net' = NetAfter(net, lldps, lldps') /\ UNCHANGED <<unregd, rc, now, sent, th, mutex, calls>> /\ hm' = HmAfter(hm, all_lldps')

SpecOps == Init /\ [][NextOps]_vars

\* Reference counting; rc follows the instance created last.
NextRef ==
    \/ Create /\ rc' = RcAfter(rc, last') /\ UNCHANGED unregd /\ UNCHANGED <<now, sent, th, mutex, net, calls>> /\ hm' = HmAfter(hm, all_lldps')
    \/ Ref /\ rc' = RcAfter(rc, last') /\ UNCHANGED unregd /\ UNCHANGED <<now, sent, th, mutex, net, calls>> /\ hm' = HmAfter(hm, all_lldps')
    \/ Unref /\ rc' = RcAfter(rc, last') /\ UNCHANGED unregd /\ UNCHANGED <<now, sent, th, mutex, net, calls>> /\ hm' = HmAfter(hm, all_lldps')

SpecRef == Init /\ [][NextRef]_vars

\* Instances of lldp_create and of lldp_create_dummy, lldp_ref and
\* lldp_unref, with the hmap all_lldps; nothing runs after a fault.
CreateDummy == lldp_create_dummy

NextDummy ==
    \/ ~hm.segv /\ Create /\ hm' = HmAfter(hm, all_lldps') /\ UNCHANGED <<unregd, rc, now, sent, th, mutex, net, calls>>
    \/ ~hm.segv /\ CreateDummy /\ hm' = hm /\ UNCHANGED <<unregd, rc, now, sent, th, mutex, net, calls>>
    \/ ~hm.segv /\ Ref /\ hm' = hm /\ UNCHANGED <<unregd, rc, now, sent, th, mutex, net, calls>>
    \/ ~hm.segv /\ Unref /\ hm' \in HmAfterUnref(hm, all_lldps, lldps', last'.lldp) /\ UNCHANGED <<unregd, rc, now, sent, th, mutex, net, calls>>

SpecDummy == Init /\ [][NextDummy]_vars

\* Peer status: registrations, received frames and the show-isid report.
NextStatus ==
    \/ Create /\ UNCHANGED <<unregd, rc>> /\ UNCHANGED <<now, sent, th, mutex, net, calls>> /\ hm' = HmAfter(hm, all_lldps')
    \/ Register /\ UNCHANGED <<unregd, rc>> /\ UNCHANGED <<now, sent, th, mutex, net, calls>> /\ hm' = HmAfter(hm, all_lldps')
    \/ Unregister /\ UNCHANGED <<unregd, rc>> /\ UNCHANGED <<now, sent, th, mutex, net, calls>> /\ hm' = HmAfter(hm, all_lldps')
    \/ Process /\ UNCHANGED <<unregd, rc>> /\ UNCHANGED <<now, sent, th, mutex, net, calls>> /\ hm' = HmAfter(hm, all_lldps')
    \/ ShowIsid /\ UNCHANGED <<unregd, rc>> /\ UNCHANGED <<now, sent, th, mutex, net, calls>> /\ hm' = HmAfter(hm, all_lldps')

SpecStatus == Init /\ [][NextStatus]_vars

\* The transmit timer: instances, lldp_configure, lldp_put_packet, the two
\* queries and the clock; sent follows lldp_put_packet.
NextTimer ==
    \/ Create /\ sent' = SentAfter(sent, last', lldps') /\ UNCHANGED <<unregd, rc, now, th, mutex, net, calls>> /\ hm' = HmAfter(hm, all_lldps')
    \/ Configure /\ sent' = SentAfter(sent, last', lldps') /\ UNCHANGED <<unregd, rc, now, th, mutex, net, calls>> /\ hm' = HmAfter(hm, all_lldps')
    \/ PutPacket /\ sent' = SentAfter(sent, last', lldps') /\ UNCHANGED <<unregd, rc, now, th, mutex, net, calls>> /\ hm' = HmAfter(hm, all_lldps')
    \/ ShouldSendPacket /\ sent' = SentAfter(sent, last', lldps') /\ UNCHANGED <<unregd, rc, now, th, mutex, net, calls>> /\ hm' = HmAfter(hm, all_lldps')
    \/ WakeTimeOf /\ sent' = SentAfter(sent, last', lldps') /\ UNCHANGED <<unregd, rc, now, th, mutex, net, calls>> /\ hm' = HmAfter(hm, all_lldps')
    \/ Tick /\ UNCHANGED <<unregd, rc, sent, th, mutex, net, hm, calls>>

SpecTimer == Init /\ [][NextTimer]_vars

\* Two threads calling lldp_create, aa_mapping_register, lldp_unref,
\* lldp_ref, lldp_put_packet, lldp_configure and lldp_should_send_packet,
\* statement by statement.
NextThreads ==
    \/ \E t \in Threads : StartCreate(t) /\ UNCHANGED <<last, out, unregd, rc, now, sent, net, calls>> /\ hm' = HmAfter(hm, all_lldps')
    \/ \E t \in Threads : StartRegister(t) /\ UNCHANGED <<last, out, unregd, rc, now, sent, net, calls>> /\ hm' = HmAfter(hm, all_lldps')
    \/ \E t \in Threads : StartUnref(t) /\ UNCHANGED <<last, out, unregd, rc, now, sent, net, calls>> /\ hm' = HmAfter(hm, all_lldps')
    \/ \E t \in Threads : StartRef(t) /\ UNCHANGED <<last, out, unregd, rc, now, sent, net, calls>> /\ hm' = HmAfter(hm, all_lldps')
    \/ \E t \in Threads : StartTimerCall(t) /\ UNCHANGED <<last, out, unregd, rc, now, sent, net, calls>> /\ hm' = HmAfter(hm, all_lldps')
    \/ \E t \in Threads : ThStep(t) /\ UNCHANGED <<last, out, unregd, rc, now, sent, net, calls>> /\ hm' = HmAfter(hm, all_lldps')

SpecThreads == Init /\ [][NextThreads]_vars

\* One statement of thread t.
LiveStep(t) ==
    ThStep(t) /\ UNCHANGED <<last, out, unregd, rc, now, sent, net, calls>> /\ hm' = HmAfter(hm, all_lldps')

\* A function is entered while fewer than MaxCalls have been.
Called == calls < MaxCalls /\ calls' = calls + 1 /\ UNCHANGED <<last, out, unregd, rc, now, sent, net, hm>>

\* Two threads entering MaxCalls functions in all, any of the public ones
\* that take the mutex, and lldp_ref.
NextLive ==
    \/ \E t \in Threads : StartCreate(t) /\ Called
    \/ \E t \in Threads : StartRegister(t) /\ Called
    \/ \E t \in Threads : StartUnregister(t) /\ Called
    \/ \E t \in Threads : StartUnref(t) /\ Called
    \/ \E t \in Threads : StartRef(t) /\ Called
    \/ \E t \in Threads : StartTimerCall(t) /\ Called
    \/ \E t \in Threads : StartWakeCall(t) /\ Called
    \/ \E t \in Threads : StartRegistryCall(t) /\ Called
    \/ \E t \in Threads : LiveStep(t)

\* Every thread inside a function gets to execute its next statement.
SpecLive == Init /\ [][NextLive]_vars /\ \A t \in Threads : WF_vars(LiveStep(t))

\* ------------------------------------------------------------------- claims
AddOp(port, vlan) == [port_name |-> port, vlan |-> vlan, oper |-> "ADD"]
RemoveOp(port, vlan) == [port_name |-> port, vlan |-> vlan, oper |-> "REMOVE"]

IsPrefix(p, q) == Len(p) <= Len(q) /\ \A k \in 1..Len(p) : p[k] = q[k]

\* The Add operations one mapping queues on instance l: one per port record.
AddsFor(l, vlan) == [h \in 1..Len(l.g_hardware) |-> AddOp(l.g_hardware[h].h_ifname, vlan)]

\* C1: aa_mapping_register(aux, isid, vlan) gives every instance of the
\* registry that had no node for isid exactly one new node (isid, vlan, aux),
\* Pending, in both indices; each of its port records gets one TLV record
\* (isid, vlan) at the end of its exported list, and one Add(port_name, vlan)
\* per port record goes to the tail of its queue.
C1_RegisterFansOut ==
    [][last'.op = "register" =>
         \A i \in all_lldps :
            mapping_find_by_isid(lldps[i], last'.isid) = {} =>
               LET m == Mapping(last'.isid, last'.vlan, last'.aux, AA_STATUS_PENDING)
                   l == lldps[i]
                   n == lldps'[i]
               IN  /\ m \notin l.mappings_by_isid \cup l.mappings_by_aux
                   /\ n.mappings_by_isid = l.mappings_by_isid \cup {m}
                   /\ n.mappings_by_aux = l.mappings_by_aux \cup {m}
                   /\ Len(n.g_hardware) = Len(l.g_hardware)
                   /\ \A h \in 1..Len(l.g_hardware) :
                         n.g_hardware[h].p_isid_vlan_maps =
                            Append(l.g_hardware[h].p_isid_vlan_maps,
                                   [isid |-> last'.isid, vlan |-> last'.vlan])
                   /\ n.active_mapping_queue =
                         l.active_mapping_queue \o AddsFor(l, last'.vlan)
    ]_vars

\* A registration reached an instance whose queue already held an operation:
\* the only entry of all_mappings for the I-SID is the one just added.
C1_Witness ==
    /\ last.op = "register"
    /\ Cardinality({k \in 1..Len(all_mappings) : all_mappings[k].isid = last.isid}) = 1
    /\ \E i \in all_lldps :
          /\ Mapping(last.isid, last.vlan, last.aux, AA_STATUS_PENDING)
                \in lldps[i].mappings_by_isid \cap lldps[i].mappings_by_aux
          /\ Len(lldps[i].active_mapping_queue) = 2
          /\ lldps[i].active_mapping_queue[2] = AddOp(lldps[i].name, last.vlan)

\* C2: aa_mapping_register for an I-SID an instance already has a node for
\* (under the same or another aux or vlan) leaves that instance as it was
\* (nodes, their vlan, aux and status, exported TLVs, queue); after any
\* registration each instance of the registry has exactly one node for the
\* I-SID in each index.
C2_RegisterIdempotent ==
    [][last'.op = "register" =>
         \A i \in all_lldps :
            /\ mapping_find_by_isid(lldps[i], last'.isid) # {} => lldps'[i] = lldps[i]
            /\ Cardinality(mapping_find_by_isid(lldps'[i], last'.isid)) = 1
            /\ Cardinality({m \in lldps'[i].mappings_by_aux : m.isid = last'.isid}) = 1
    ]_vars

\* The I-SID was registered again under another aux and vlan: the instance
\* still has the first node and the one Add it queued.
C2_Witness ==
    /\ last.op = "register" /\ last.aux = "r2" /\ last.isid = 100
    /\ \E i \in all_lldps :
          /\ lldps[i].mappings_by_isid = {Mapping(100, 10, "r1", AA_STATUS_PENDING)}
          /\ lldps[i].active_mapping_queue = <<AddOp(lldps[i].name, 10)>>

\* C3: aa_mapping_register(aux, isid, vlan) for an I-SID and aux not known
\* before, followed at once by aa_mapping_unregister(aux), leaves no node for
\* the I-SID on any instance and none in all_mappings, and the queue of every
\* instance holds an Add(vlan) and, later, a Remove(vlan).
C3_RoundTrip ==
    (last.op = "unregister" /\ last.rt) =>
        /\ \A i \in all_lldps :
              \A m \in lldps[i].mappings_by_isid \cup lldps[i].mappings_by_aux :
                 m.isid # last.isid
        /\ \A k \in 1..Len(all_mappings) : all_mappings[k].isid # last.isid
        /\ \A i \in all_lldps :
              LET q == lldps[i].active_mapping_queue
              IN  \E a, b \in 1..Len(q) :
                     /\ a < b
                     /\ q[a] = AddOp(lldps[i].name, last.vlan)
                     /\ q[b] = RemoveOp(lldps[i].name, last.vlan)

\* C4: when lldp_create has returned an instance, the instance is in the
\* registry and was seeded from all_mappings: for every I-SID of all_mappings
\* it has exactly one node, a Pending copy of an entry of all_mappings (of the
\* entry, when the I-SID has one), in both indices; its queue and its port's
\* exported list hold one Add, and one TLV record, per node and nothing else.
C4_CreateSeeds ==
    (last.op = "create" /\ last.lldp # 0) =>
        LET l == lldps[last.lldp]
            entries == {all_mappings[k] : k \in 1..Len(all_mappings)}
            q == l.active_mapping_queue
            t == l.g_hardware[1].p_isid_vlan_maps
        IN  /\ last.lldp \in all_lldps
            /\ l.mappings_by_isid = l.mappings_by_aux
            /\ l.mappings_by_isid \subseteq entries
            /\ \A m \in l.mappings_by_isid : m.status = AA_STATUS_PENDING
            /\ \A e \in entries : Cardinality(mapping_find_by_isid(l, e.isid)) = 1
            /\ Len(q) = Cardinality(l.mappings_by_isid)
            /\ \A m \in l.mappings_by_isid :
                  Cardinality({k \in 1..Len(q) : q[k] = AddOp(l.name, m.vlan)})
                     = Cardinality({x \in l.mappings_by_isid : x.vlan = m.vlan})
            /\ Len(t) = Cardinality(l.mappings_by_isid)
            /\ \A m \in l.mappings_by_isid :
                  Cardinality({k \in 1..Len(t) : t[k] = [isid |-> m.isid, vlan |-> m.vlan]}) = 1

\* I-SID 200 / VLAN 20 was registered while there was no instance, and the
\* first instance created has it, Pending, with its one Add queued.
C4_Witness ==
    /\ last.op = "create" /\ last.lldp # 0
    /\ all_lldps = {last.lldp}
    /\ all_mappings = <<Mapping(200, 20, "r1", AA_STATUS_PENDING)>>
    /\ lldps[last.lldp].mappings_by_isid = {Mapping(200, 20, "r1", AA_STATUS_PENDING)}
    /\ lldps[last.lldp].mappings_by_aux = {Mapping(200, 20, "r1", AA_STATUS_PENDING)}
    /\ lldps[last.lldp].active_mapping_queue = <<AddOp(lldps[last.lldp].name, 20)>>

\* C5, as claimed: after lldp_create, two lldp_ref and one lldp_unref the
\* instance is in the registry, and the second lldp_unref removes it.
C5_SecondUnrefRemoves ==
    /\ rc.stage = "unref1" => rc.lldp \in all_lldps /\ Live(rc.lldp)
    /\ rc.stage = "unref2" => rc.lldp \notin all_lldps

\* C5, amended: after lldp_create, two lldp_ref and two lldp_unref the
\* instance is still in the registry, with the one reference lldp_create
\* gave its caller; the third lldp_unref removes it and frees it.
C5_ThirdUnrefRemoves ==
    /\ rc.stage \in {"unref1", "unref2"} => rc.lldp \in all_lldps /\ Live(rc.lldp)
    /\ rc.stage = "unref1" => lldps[rc.lldp].ref_cnt = 2
    /\ rc.stage = "unref2" => lldps[rc.lldp].ref_cnt = 1
    /\ rc.stage = "unref3" => rc.lldp \notin all_lldps /\ lldps[rc.lldp].st = "freed"

\* The third lldp_unref ran.
C5_Witness ==
    rc.stage = "unref3" /\ rc.lldp \notin all_lldps /\ last.op = "unref"

\* C6: no instance of the registry has a node whose aux was unregistered and
\* not registered again since.
C6_UnregisteredAuxGone ==
    \A aux \in unregd : \A i \in all_lldps :
        \A m \in lldps[i].mappings_by_isid \cup lldps[i].mappings_by_aux : m.aux # aux

\* C7: when aa_get_vlan_queued has returned, the queue of every instance of
\* the registry is empty, and aa_get_vlan_queue_size, called now, returns 0.
C7_DrainEmptiesAll ==
    last.op = "queued" =>
        /\ \A i \in all_lldps : lldps[i].active_mapping_queue = <<>>
        /\ U32(SumQueues(all_lldps)) = 0

\* aa_get_vlan_queued took operations off the queues of two instances.
C7_Witness ==
    /\ last.op = "queued"
    /\ Cardinality(all_lldps) = 2
    /\ \E a, b \in 1..Len(out.list) : out.list[a].port_name # out.list[b].port_name
    /\ \A i \in all_lldps : lldps[i].active_mapping_queue = <<>>

\* C8: the queue of an instance changes only by operations added at its tail
\* (each with the name of a port record of the instance) and by
\* aa_get_vlan_queued, which empties it and hands out, instance after
\* instance, exactly the operations each queue held, in the queue's order.
C8_QueueIsFifo ==
    [][/\ \A i \in InstIds :
            (Live(i) /\ lldps'[i].st = "live") =>
               LET q == lldps[i].active_mapping_queue
                   n == lldps'[i].active_mapping_queue
               IN  IF last'.op = "queued" /\ i \in all_lldps
                   THEN n = <<>>
                   ELSE /\ IsPrefix(q, n)
                        /\ \A k \in (Len(q) + 1)..Len(n) :
                              \E h \in 1..Len(lldps[i].g_hardware) :
                                 n[k].port_name = lldps[i].g_hardware[h].h_ifname
       /\ last'.op = "queued" =>
            \E ord \in Orders(all_lldps) :
               /\ Len(out'.list) = SumQueues(all_lldps)
               /\ \A k \in 1..Len(ord) :
                     LET before == SumQueues({ord[j] : j \in 1..(k - 1)})
                         q == lldps[ord[k]].active_mapping_queue
                     IN  \A x \in 1..Len(q) : out'.list[before + x] = q[x]
    ]_vars

\* aa_get_vlan_queued handed out an Add and the Remove queued after it.
C8_Witness ==
    /\ last.op = "queued"
    /\ \E k \in 1..(Len(out.list) - 1) :
          /\ out.list[k].oper = "ADD"
          /\ out.list[k + 1].oper = "REMOVE"
          /\ out.list[k].port_name = out.list[k + 1].port_name

\* The peer's report for an I-SID on the remote ports of instance l: the
\* statuses of its TLVs, in the order the refresh pass meets them.
PeerReports(l, isid) ==
    {t \in UNION {UNION {{l.g_hardware[h].h_rports[r].p_isid_vlan_maps[k]
                            : k \in 1..Len(l.g_hardware[h].h_rports[r].p_isid_vlan_maps)}
                         : r \in 1..Len(l.g_hardware[h].h_rports)}
                  : h \in 1..Len(l.g_hardware)}
       : t.isid = isid}

\* C9: when lldp_process_packet has returned, every node of the instance
\* whose I-SID the frame reports has the status the frame reports.
C9_ProcessSetsStatus ==
    last.op = "process" =>
        \A m \in lldps[last.lldp].mappings_by_isid :
           \A t \in PeerReports(lldps[last.lldp], m.isid) : m.status = t.status

\* After show-isid every node whose I-SID the peer reports (with one status)
\* has that status, and the report has its row with the status's name.
ShownPeerStatus ==
    \A i \in all_lldps : \A m \in lldps[i].mappings_by_isid :
        \A s \in PeerStatus :
           {t.status : t \in PeerReports(lldps[i], m.isid)} = {s} =>
              /\ m.status = s
              /\ [lldp |-> i, name |-> lldps[i].name, isid |-> m.isid, vlan |-> m.vlan,
                  source |-> "Switch", status |-> aa_status_to_str(s)] \in out.ds
              /\ s = AA_STATUS_ACTIVE =>
                    \A r \in out.ds : (r.lldp = i /\ r.isid = m.isid) => r.status = "Active"

Keys(S) == {[isid |-> m.isid, vlan |-> m.vlan, aux |-> m.aux] : m \in S}

\* C10: the show-isid report that follows a peer's report of a status for an
\* I-SID the instance has a node for lists the I-SID with that status's name
\* (Active for Active), and the node has the status; lldp_process_packet
\* changes neither index of any instance, and show-isid adds and removes no
\* node.
C10_StatusReachesReport ==
    [][/\ last'.op = "show_isid" => ShownPeerStatus'
       /\ last'.op = "process" =>
             \A i \in InstIds :
                /\ lldps'[i].mappings_by_isid = lldps[i].mappings_by_isid
                /\ lldps'[i].mappings_by_aux = lldps[i].mappings_by_aux
       /\ last'.op = "show_isid" =>
             \A i \in InstIds :
                /\ Keys(lldps'[i].mappings_by_isid) = Keys(lldps[i].mappings_by_isid)
                /\ Keys(lldps'[i].mappings_by_aux) = Keys(lldps[i].mappings_by_aux)
    ]_vars

\* show-isid listed as Active an I-SID the peer reported Active, while the
\* peer also reported an I-SID the instance has no node for.
C10_Witness ==
    /\ last.op = "show_isid"
    /\ \E i \in all_lldps :
          /\ \E m \in lldps[i].mappings_by_isid :
                /\ m.status = AA_STATUS_ACTIVE
                /\ \E r \in out.ds : r.lldp = i /\ r.isid = m.isid /\ r.status = "Active"
          /\ \E j \in all_lldps :
                \E t \in PeerReports(lldps[j], 200) :
                   mapping_find_by_isid(lldps[j], 200) = {}

\* C11: aa_mapping_unregister(aux) for an aux no instance of the registry has
\* a node for returns 0 and leaves the registry, all_mappings and every
\* instance (indices, exported TLV lists, queue) as they were.
C11_UnregisterUnknownIsNoOp ==
    [][(/\ last'.op = "unregister"
        /\ \A i \in all_lldps :
              \A m \in lldps[i].mappings_by_isid \cup lldps[i].mappings_by_aux :
                 m.aux # last'.aux)
          => /\ out'.ret = 0
             /\ UNCHANGED <<all_lldps, all_mappings, lldps>>
    ]_vars

\* aux r2 was unregistered while the instance held the node of r1 for the
\* I-SID: the node, its TLV, its queued Add and its entry are all there.
C11_Witness ==
    /\ last.op = "unregister" /\ last.aux = "r2"
    /\ all_mappings = <<Mapping(100, 10, "r1", AA_STATUS_PENDING)>>
    /\ \E i \in all_lldps :
          /\ lldps[i].mappings_by_aux = {Mapping(100, 10, "r1", AA_STATUS_PENDING)}
          /\ lldps[i].mappings_by_isid = lldps[i].mappings_by_aux
          /\ lldps[i].g_hardware[1].p_isid_vlan_maps = <<[isid |-> 100, vlan |-> 10]>>
          /\ lldps[i].active_mapping_queue = <<AddOp(lldps[i].name, 10)>>

\* C12: at the time lldp_configure returns, lldp_should_send_packet is true
\* for the instance, and its transmit interval is the default.
C12_ConfigureExpiresTimer ==
    (last.op = "configure" /\ now = last.at) =>
        /\ ShouldSend(last.lldp)
        /\ lldps[last.lldp].c_tx_interval = LLDP_DEFAULT_TRANSMIT_INTERVAL_MS

\* C13: after lldp_put_packet ran at time T on an instance whose transmit
\* interval is I, and until the next lldp_put_packet or lldp_configure,
\* lldp_should_send_packet is false while the time is below T + I and true
\* from T + I on; at every time it is true exactly when the time has reached
\* what lldp_wake_time returns.
C13_TransmitRearm ==
    /\ \A i \in InstIds : Live(i) => (ShouldSend(i) <=> now >= WakeTime(i))
    /\ sent.lldp # 0 =>
          /\ now < sent.at + sent.interval => ~ShouldSend(sent.lldp)
          /\ now >= sent.at + sent.interval => ShouldSend(sent.lldp)

\* lldp_should_send_packet has just returned true, one default interval after
\* an lldp_put_packet that ran when the clock had already advanced.
C13_Witness ==
    /\ sent.lldp # 0 /\ sent.at > 0
    /\ sent.interval = LLDP_DEFAULT_TRANSMIT_INTERVAL_MS
    /\ now = sent.at + sent.interval
    /\ last.op = "should_send" /\ last.lldp = sent.lldp /\ out.flag

\* C14: no two instances of the registry have the same name.
C14_UniqueNames ==
    \A i, j \in all_lldps : i # j => lldps[i].name # lldps[j].name

\* C16: the packet lldp_put_packet leaves in the buffer is at least
\* MINIMUM_ETH_PACKET_SIZE bytes long.
C16_MinimumFrameSize ==
    last.op = "put_packet" => out.size >= MINIMUM_ETH_PACKET_SIZE

\* C17: whenever no function is running, the two indices of every instance
\* hold the same nodes.
C17_IndicesAgree ==
    \A i \in InstIds : lldps[i].mappings_by_isid = lldps[i].mappings_by_aux

\* aa_mapping_unregister took the one node of an instance that had received
\* a frame out of both indices.
C17_Witness ==
    /\ last.op = "unregister"
    /\ \E i \in all_lldps :
          /\ lldps[i].mappings_by_isid = {} /\ lldps[i].mappings_by_aux = {}
          /\ lldps[i].g_hardware[1].h_rports # <<>>
          /\ Len(lldps[i].active_mapping_queue) = 2
          /\ lldps[i].active_mapping_queue[1].oper = "ADD"
          /\ lldps[i].active_mapping_queue[2].oper = "REMOVE"

\* C18: for every instance of the registry and each of its port records, the
\* exported list holds one TLV record (isid, vlan) for each node of the
\* instance and no other record.
C18_TlvsMatchNodes ==
    \A i \in all_lldps : \A h \in 1..Len(lldps[i].g_hardware) :
        LET t == lldps[i].g_hardware[h].p_isid_vlan_maps
            S == lldps[i].mappings_by_isid \cup lldps[i].mappings_by_aux
        IN  /\ \A m \in S :
                  Cardinality({k \in 1..Len(t) :
                                  t[k] = [isid |-> m.isid, vlan |-> m.vlan]}) = 1
            /\ \A k \in 1..Len(t) :
                  \E m \in S : t[k] = [isid |-> m.isid, vlan |-> m.vlan]

\* C19: all_mappings has at most one entry for an I-SID.
C19_OneEntryPerIsid ==
    \A j, k \in 1..Len(all_mappings) :
        j # k => all_mappings[j].isid # all_mappings[k].isid

\* C15: every statement of a public function that reads or writes the
\* registry, all_mappings, or the indices, the queue or the tx_timer of an
\* instance is executed by a thread that holds the mutex, so no two threads
\* are at such statements at the same time.
C15_SharedAccessUnderMutex ==
    /\ \A t \in Threads : (Running(t) /\ Shared(Label(t))) => mutex = t
    /\ \A t \in Threads : \A u \in Threads \ {t} :
          (Running(t) /\ Running(u)) => ~(Shared(Label(t)) /\ Shared(Label(u)))

\* lldp_unref is about to take the instance out of the registry, holding the
\* mutex, while lldp_put_packet in the other thread waits for it.
C15_Witness ==
    \E t \in Threads : \E u \in Threads \ {t} :
       /\ Running(t) /\ th[t].op = "unref" /\ Label(t) = "remove" /\ mutex = t
       /\ Running(u) /\ th[u].op = "put_packet" /\ Label(u) = "lock"

\* The number of queued operations equal to op.
CountOps(q, op) == Cardinality({k \in 1..Len(q) : q[k] = op})

\* C20: when lldp_create and aa_mapping_register run at the same time, in
\* every interleaving the instance in the registry has exactly one node for
\* the I-SID and exactly one Add queued for it (seeded by lldp_create or
\* added by the fan-out, never neither and never both), once the fan-out of
\* the register has run.
C20_CreateRegisterRace ==
    (~\E t \in Threads : Running(t) /\ Label(t) = "fanout") =>
       \A i \in all_lldps : \A k \in 1..Len(all_mappings) :
          LET l == lldps[i]
              g == all_mappings[k]
              nodes == mapping_find_by_isid(l, g.isid)
          IN  /\ Cardinality(nodes) = 1
              /\ Cardinality({m \in l.mappings_by_aux : m.isid = g.isid}) = 1
              /\ \A m \in nodes :
                    /\ CountOps(l.active_mapping_queue, AddOp(l.name, m.vlan))
                          = Cardinality({n \in l.mappings_by_isid : n.vlan = m.vlan})
                    /\ Cardinality({j \in 1..Len(all_mappings) :
                                       all_mappings[j].isid = g.isid}) = 1
                          => m.vlan = g.vlan
              /\ Len(l.active_mapping_queue) = Cardinality(l.mappings_by_isid)

\* lldp_create has seeded from an empty table, inserted and unlocked but not
\* returned; aa_mapping_register, which waited for the mutex, has fanned out
\* to the new instance and not unlocked yet.
C20_Witness ==
    \E t \in Threads : \E u \in Threads \ {t} :
       /\ Running(t) /\ th[t].op = "create" /\ Label(t) = "publish"
       /\ Running(u) /\ th[u].op = "register" /\ Label(u) = "unlock"
       /\ th[t].lldp \in all_lldps
       /\ Len(all_mappings) = 1
       /\ Cardinality(mapping_find_by_isid(lldps[th[t].lldp], th[u].isid)) = 1
       /\ lldps[th[t].lldp].active_mapping_queue = <<AddOp(th[t].name, th[u].vlan)>>

\* C24: aa_mapping_unregister reads the I-SID and the VLAN of a node only
\* while the node is live: for an instance holding one node under the aux
\* whose TLV is exported, the TLV removed is the first one with the node's
\* I-SID and the Remove queued carries the node's VLAN.
C24_NoReadAfterFree ==
    [][last'.op = "unregister" =>
         \A i \in all_lldps :
            LET l == lldps[i]
                found == mapping_find_by_aux(l, last'.aux)
                maps == l.g_hardware[1].p_isid_vlan_maps
            IN  Cardinality(found) = 1 =>
                  \A m \in found :
                     LET hits == {k \in 1..Len(maps) : maps[k].isid = m.isid}
                     IN  hits # {} =>
                           /\ lldps'[i].g_hardware[1].p_isid_vlan_maps
                                 = RemoveAt(maps, Min(hits))
                           /\ lldps'[i].active_mapping_queue
                                 = Append(l.active_mapping_queue, RemoveOp(l.name, m.vlan))
    ]_vars

\* C23: all the instances in the registry hold the same set of mappings
\* (I-SID, VLAN, aux), whether they were created before or after the
\* registrations.
C23_InstancesAgree ==
    \A i \in all_lldps : \A j \in all_lldps :
       Keys(lldps[i].mappings_by_isid) = Keys(lldps[j].mappings_by_isid)

\* C25: every operation queued on an instance is returned by exactly one
\* aa_get_vlan_queued call: a call returns every queued operation once and
\* leaves the queues empty, and no other function takes a queued operation
\* away, lldp_unref of the last reference included.
C25_NoLossNoDuplication ==
    [][/\ last'.op = "queued" =>
            /\ \E ord \in Orders(all_lldps) : out'.list = QueuedFrom(ord, 1)
            /\ \A i \in all_lldps : lldps'[i].active_mapping_queue = <<>>
       /\ last'.op # "queued" =>
            \A i \in all_lldps :
               lldps[i].active_mapping_queue # <<>> =>
                  /\ i \in all_lldps'
                  /\ IsPrefix(lldps[i].active_mapping_queue, lldps'[i].active_mapping_queue)
    ]_vars

\* C26: in the history of the operations queued for an instance's port, a
\* Remove of a VLAN never outnumbers the Adds of it queued before, and at
\* every point the Adds minus the Removes queued for the VLAN are as many as
\* the nodes with that VLAN the instance holds.
C26_AddBeforeRemove ==
    \A i \in all_lldps : \A v \in VLANS \cup {-1} :
       /\ net[i][v] >= 0
       /\ net[i][v] = Cardinality({m \in lldps[i].mappings_by_isid : m.vlan = v})

\* C27: lldp_create_dummy does not insert into all_lldps, and lldp_unref of
\* the last reference of a dummy instance leaves the instances of all_lldps
\* and their number as they were.
C27_DummyOutsideRegistry ==
    [][/\ last'.op = "create_dummy" => (all_lldps' = all_lldps /\ hm' = hm)
       /\ (/\ last'.op = "unref"
           /\ lldps[last'.lldp].name = "dummy-lldp"
           /\ lldps[last'.lldp].ref_cnt = 1)
          => (all_lldps' = all_lldps /\ hm' = hm)
    ]_vars

\* C22: a function that takes the mutex releases it on every path and never
\* takes it while holding it, and of a finite set of calls made by the
\* threads, each of which gets to run, every call returns.
C22_NoDeadlock ==
    /\ [](\A t \in Threads :
             /\ ~Running(t) => mutex # t
             /\ (Running(t) /\ Label(t) = "lock") => mutex # t)
    /\ \A t \in Threads : Running(t) ~> ~Running(t)

\* lldp_unref waits for the mutex that aa_unixctl_status holds while it
\* replies.
C22_Witness ==
    \E t \in Threads : \E u \in Threads \ {t} :
       /\ Running(t) /\ th[t].op = "unref" /\ Label(t) = "lock"
       /\ Running(u) /\ th[u].op = "status" /\ Label(u) = "reply" /\ mutex = u

\* The statements that walk all_lldps.
Visits(lab) == lab \in {"fanout", "unreg", "drain", "sum", "aa_cfg", "report", "refresh"}

\* The threads inside lldp_unref(i) that read a count of 1: they remove the
\* instance and free it.
TornDownBy(i) ==
    {t \in Threads : /\ Running(t) /\ th[t].op = "unref"
                     /\ th[t].lldp = i /\ th[t].pc > 2}

\* C21: an instance lldp_create returned stays in all_lldps while its
\* ref_cnt is above zero; when the lldp_unref calls of the threads bring the
\* count to zero exactly one of them removes the instance and tears it down;
\* and no function walking all_lldps meets an instance whose teardown has
\* begun.
C21_TeardownOnce ==
    /\ \A i \in InstIds :
          /\ (lldps[i].st = "live" /\ lldps[i].ref_cnt > 0) => i \in all_lldps
          /\ Cardinality(TornDownBy(i)) <= 1
          /\ (lldps[i].st = "live" /\ lldps[i].ref_cnt = 0)
                => Cardinality(TornDownBy(i)) = 1
          /\ lldps[i].st = "freed" => i \notin all_lldps
    /\ \A t \in Threads :
          (Running(t) /\ Visits(Label(t))) =>
             \A i \in all_lldps :
                /\ TornDownBy(i) = {}
                /\ lldps[i].st \in {"new", "live"}
                /\ lldps[i].ref_cnt > 0

\* lldp_unref has read a count of 1, removed the instance and unlocked, and
\* is about to free it, while aa_mapping_register in the other thread walks
\* all_lldps, which holds the other instance only.
C21_Witness ==
    \E t \in Threads : \E u \in Threads \ {t} :
       /\ Running(t) /\ th[t].op = "unref" /\ Label(t) = "free"
       /\ lldps[th[t].lldp].ref_cnt = 0
       /\ th[t].lldp \notin all_lldps
       /\ Running(u) /\ th[u].op = "register" /\ Label(u) = "fanout" /\ mutex = u
       /\ all_lldps # {}

====
